---------------------------- MODULE Spec2Model ----------------------------
(***************************************************************************)
(* A model of dad-bot-matrix: the DadBot responder (src/src/DadBot.ts) and *)
(* the event store it drives (src/src/DBController.ts).                    *)
(*                                                                         *)
(* A JavaScript string is a sequence of one-character strings, so that     *)
(* split(' ') and toLowerCase() are computed and not assumed.              *)
(***************************************************************************)
EXTENDS Integers, Sequences, FiniteSets, TLC

VARIABLES
    now,        \* the wall clock read by isRelevant (new Date())
    table,      \* rows of the events table: eventID -> responseID
    handlers,   \* one record per call of respond(): the handler's position
    sent,       \* the calls of client.sendEvent, in order, with their outcome
    dbLog,      \* the statements the database ran on the events table, in order
    last,       \* the last call of the room.message callback: event and clock
    delivered,  \* how many events the callback has been called with
    callbacks,  \* the promise of each call of the room.message callback
    phase,      \* where run() is: constructed, listening or failed
    isReady,    \* DBController.isReady
    tableExists,\* whether the database file holds the events table
    calls,      \* the calls made on a DBController directly, in order
    nmToks,     \* getName harness: the tokens the body was written from
    nmResult,   \* getName harness: the value getName returned, or NotCalled
    wnClock,    \* isRelevant harness: the clock when isRelevant is called
    wnStamp,    \* isRelevant harness: the timestamp it is called with
    wnResult    \* isRelevant harness: what it returned, or NotAsked

vars ==
    <<now, table, handlers, sent, dbLog, last, delivered, callbacks, phase,
      isReady, tableExists, calls, nmToks, nmResult, wnClock, wnStamp,
      wnResult>>

botVars ==
    <<now, table, handlers, sent, dbLog, last, delivered, callbacks, phase,
      isReady, tableExists>>

nameVars == <<nmToks, nmResult>>

storeVars == <<calls>>

windowVars == <<wnClock, wnStamp, wnResult>>

---------------------------------------------------------------------------
(* Strings *)

\* JavaScript's undefined, where a string is expected
Undefined == <<"<undefined>">>

\* the empty string
Empty == <<>>

\* a value is truthy when it is neither undefined nor the empty string
Truthy(x) == x /= Undefined /\ x /= Empty

UpperCase == <<"A", "B", "D", "H", "I", "M", "O", "S">>

LowerCase == <<"a", "b", "d", "h", "i", "m", "o", "s">>

\* String.prototype.toLowerCase on one character
ToLowerChar(c) ==
    IF \E k \in DOMAIN UpperCase : UpperCase[k] = c
    THEN LowerCase[CHOOSE k \in DOMAIN UpperCase : UpperCase[k] = c]
    ELSE c

\* String.prototype.toLowerCase
ToLowerCase(s) == [k \in DOMAIN s |-> ToLowerChar(s[k])]

\* String.prototype.split(' '): cut at every single space; adjacent, leading
\* and trailing spaces give empty strings
RECURSIVE Split(_)
Split(s) ==
    IF \E k \in DOMAIN s : s[k] = " "
    THEN LET k == CHOOSE j \in DOMAIN s :
                      s[j] = " " /\ \A m \in 1..(j - 1) : s[m] /= " "
         IN  <<SubSeq(s, 1, k - 1)>> \o Split(SubSeq(s, k + 1, Len(s)))
    ELSE <<s>>

\* includes that takes an element holding x for x ("him" for "im")
Includes_Substring(arr, x) ==
    \E k \in DOMAIN arr :
        \E a \in 0..Len(x), b \in 0..Len(x) :
            a + Len(arr[k]) + b = Len(x) /\ SubSeq(x, a + 1, a + Len(arr[k])) = arr[k]

\* Array.prototype.includes
Includes(arr, x) == \E k \in DOMAIN arr : arr[k] = x

\* Array.prototype.indexOf, 0-based, -1 when absent
IndexOf(arr, x) ==
    IF Includes(arr, x)
    THEN (CHOOSE k \in DOMAIN arr :
              arr[k] = x /\ \A m \in 1..(k - 1) : arr[m] /= x) - 1
    ELSE -1

\* arr[k] for a 0-based k: undefined outside the array
At(arr, k) == IF (k + 1) \in DOMAIN arr THEN arr[k + 1] ELSE Undefined

---------------------------------------------------------------------------
(* DadBot: the pure functions *)

\* the character U+2019 (right single quotation mark), written in ASCII
RightQuote == "U+2019"

\* DadBot.triggerWords
triggerWords ==
    << <<"i", "m">>,
       <<"i", "'", "m">>,
       <<"i", "m", "m", "a">>,
       <<"i", RightQuote, "m">> >>

\* the value of i when the loop of getName found no trigger word
NoIndex == -1

\* the loop of getName: i = split.indexOf(element) + 1 for the first element
\* whose lower case is a trigger word
TriggerIndex(split) ==
    IF \E k \in DOMAIN split : Includes(triggerWords, ToLowerCase(split[k]))
    THEN LET k == CHOOSE j \in DOMAIN split :
                      /\ Includes(triggerWords, ToLowerCase(split[j]))
                      /\ \A m \in 1..(j - 1) :
                             ~Includes(triggerWords, ToLowerCase(split[m]))
         IN  IndexOf(split, split[k]) + 1
    ELSE NoIndex

\* getName without the second word of the name
getName_OneWord(context) ==
    LET split == Split(context)
        i == TriggerIndex(split)
    IN  IF i /= NoIndex /\ i /= 0 /\ Truthy(At(split, i))
        THEN At(split, i)
        ELSE Empty

\* DadBot.getName
getName(context) ==
    LET split == Split(context)
        i == TriggerIndex(split)
        j == i + 1
    IN  IF i /= NoIndex /\ i /= 0 /\ Truthy(At(split, i))
        THEN IF Truthy(At(split, j))
             THEN At(split, i) \o <<" ">> \o At(split, j)
             ELSE At(split, i)
        ELSE Empty

---------------------------------------------------------------------------
(* Time: a timestamp is a whole number of ticks since the epoch; the       *)
(* calendar is scaled down so that a month fits in a few ticks.            *)

TicksPerMinute == 2

MinutesPerHour == 2

HoursPerDay == 2

DaysPerMonth == 2

\* Date.prototype.getMinutes
getMinutes(t) == (t \div TicksPerMinute) % MinutesPerHour

\* Date.prototype.getHours
getHours(t) == (t \div (TicksPerMinute * MinutesPerHour)) % HoursPerDay

\* Date.prototype.getDate: the day of the month, from 1
getDate(t) ==
    ((t \div (TicksPerMinute * MinutesPerHour * HoursPerDay)) % DaysPerMonth) + 1

\* DadBot.isRelevant, with the clock reading passed in
isRelevant(clock, timestamp) ==
    LET msgDate == timestamp
    IN  IF getDate(clock) /= getDate(msgDate) THEN FALSE
        ELSE IF getHours(clock) /= getHours(msgDate) THEN FALSE
        ELSE IF getMinutes(clock) /= getMinutes(msgDate) THEN FALSE
        ELSE TRUE

---------------------------------------------------------------------------
(* Events *)

\* what client.getUserId() returned in run()
SelfId == "@dadbot"

\* event.content['m.relates_to'] when the event relates to nothing
NoRelation == "<undefined>"

\* an inbound room.message event, as the fields the bot reads
Event(id, sender, msgtype, body, edit, rel, ts) ==
    [event_id |-> id, sender |-> sender, msgtype |-> msgtype, body |-> body,
     new_content |-> edit, relates_to |-> rel, origin_server_ts |-> ts]

\* split.some(word => triggerWords.includes(word)) of isValidMessage
HasTrigger(split) == \E k \in DOMAIN split : Includes(triggerWords, split[k])

\* isValidMessage without the check of the sender
isValidMessage_NoSelfCheck(userId, event, clock) ==
    IF Truthy(event.body)
    THEN LET split == Split(ToLowerCase(event.body))
         IN  /\ ~(event.msgtype /= "m.text")
             /\ HasTrigger(split)
             /\ isRelevant(clock, event.origin_server_ts)
    ELSE FALSE

\* isValidMessage without the check of the message type
isValidMessage_AnyType(userId, event, clock) ==
    IF Truthy(event.body)
    THEN LET split == Split(ToLowerCase(event.body))
         IN  /\ ~(userId = event.sender)
             /\ HasTrigger(split)
             /\ isRelevant(clock, event.origin_server_ts)
    ELSE FALSE

\* isValidMessage searching the body as written, not its lower case
isValidMessage_CaseSensitive(userId, event, clock) ==
    IF Truthy(event.body)
    THEN LET split == Split(event.body)
         IN  /\ ~(event.msgtype /= "m.text" \/ userId = event.sender)
             /\ HasTrigger(split)
             /\ isRelevant(clock, event.origin_server_ts)
    ELSE FALSE

\* DadBot.isValidMessage, with the clock reading passed in
isValidMessage(userId, event, clock) ==
    IF Truthy(event.body)
    THEN LET split == Split(ToLowerCase(event.body))
         IN  /\ ~(event.msgtype /= "m.text" \/ userId = event.sender)
             /\ HasTrigger(split)
             /\ isRelevant(clock, event.origin_server_ts)
    ELSE FALSE

\* `Hi ${name}, I'm Dad.`
Message(name) ==
    <<"H", "i", " ">> \o name
        \o <<",", " ", "I", "'", "m", " ", "D", "a", "d", ".">>

\* a field of an event content that is not set
Absent == [absent |-> TRUE]

\* the ResponseEvent buildResponse starts from
InitialResponse ==
    [type |-> "m.room.message", ready |-> FALSE,
     content |-> [msgtype |-> "m.notice", body |-> Undefined,
                  new_content |-> Absent, relates_to |-> Absent]]

\* the else branch of buildResponse sending a text message, not a notice
FreshResponse_Text(message) ==
    [type |-> "m.room.message", ready |-> TRUE,
     content |-> [msgtype |-> "m.text", body |-> message,
                  new_content |-> Absent, relates_to |-> Absent]]

\* the else branch of buildResponse: a plain notice
FreshResponse(message) ==
    [type |-> "m.room.message", ready |-> TRUE,
     content |-> [msgtype |-> "m.notice", body |-> message,
                  new_content |-> Absent, relates_to |-> Absent]]

\* handleEdit with the fallback body left without its " * "
EditResponse_NoPrefix(newName, responseID) ==
    [type |-> "m.room.message", ready |-> TRUE,
     content |-> [msgtype |-> "m.notice",
                  body |-> newName,
                  new_content |-> [msgtype |-> "m.notice", body |-> newName],
                  relates_to |-> [rel_type |-> "m.replace",
                                  event_id |-> responseID]]]

\* what handleEdit builds once getEventID returned responseID
EditResponse(newName, responseID) ==
    [type |-> "m.room.message", ready |-> TRUE,
     content |-> [msgtype |-> "m.notice",
                  body |-> <<" ", "*", " ">> \o newName,
                  new_content |-> [msgtype |-> "m.notice", body |-> newName],
                  relates_to |-> [rel_type |-> "m.replace",
                                  event_id |-> responseID]]]

---------------------------------------------------------------------------
(* The responder as a state machine.  Every await of respond,             *)
(* buildResponse and handleEdit that waits for I/O is a position (pc) of   *)
(* the handler; the code between two awaits runs without interruption.     *)

MaxDeliveries == 2

MaxWideDeliveries == 1

MaxTime == 2

EventIds == {"$e1", "$e2"}

\* the ids the homeserver gives to the events the bot sends, in order
ResponseIds == <<"$r1", "$r2", "$r3", "$r4">>

\* an id-valued expression that is undefined
UndefinedId == "<undefined>"

\* an id taken for set whatever it is
TruthyId_Always(x) == TRUE

\* if (responseID), if (respondedID): the id is neither undefined nor ""
TruthyId(x) == x /= UndefinedId /\ x /= ""

\* the state of one call of respond(roomId, event): the locals of respond,
\* buildResponse and handleEdit.  delivery numbers the call of the callback
\* and stored is what the table held for the edited event at that call;
\* the code reads neither.
Handler(event, pc, name, eventId, response, stored) ==
    [event |-> event, delivery |-> delivered + 1, pc |-> pc, name |-> name,
     message |-> Message(name), eventId |-> eventId,
     responseID |-> UndefinedId,
     response |-> response, respondedID |-> UndefinedId, stored |-> stored]

\* the SELECT without its WHERE clause
SelectResponseID_AnyRow(rows, eventId) ==
    IF rows /= {}
    THEN (CHOOSE row \in rows : TRUE).responseID
    ELSE UndefinedId

\* SELECT responseID FROM events WHERE eventID = ?: the first row, if any
SelectResponseID(rows, eventId) ==
    IF \E row \in rows : row.eventID = eventId
    THEN (CHOOSE row \in rows : row.eventID = eventId).responseID
    ELSE UndefinedId

\* the events table without its PRIMARY KEY
ViolatesPrimaryKey_Never(rows, eventId) == FALSE

\* eventID is the PRIMARY KEY of the events table
ViolatesPrimaryKey(rows, eventId) == \E row \in rows : row.eventID = eventId

\* the INSERT with its two values in the wrong order
InsertRow_Swapped(rows, eventId, responseId) ==
    rows \cup {[eventID |-> responseId, responseID |-> eventId]}

\* INSERT INTO events VALUES (?, ?)
InsertRow(rows, eventId, responseId) ==
    rows \cup {[eventID |-> eventId, responseID |-> responseId]}

\* addEventID and getEventID without their call of this.start()
DbCall_NoStart(op) == op

\* the first wait of addEventID and getEventID: for the query when the
\* controller is ready, for this.start() otherwise
DbCall(op) == IF isReady THEN op ELSE "start"

\* a call of client.sendEvent(roomId, response.type, response.content) by
\* handler h, not settled yet
SendCall(h, response) ==
    [by |-> h, type |-> response.type, content |-> response.content,
     result |-> "pending", event_id |-> UndefinedId]

\* buildResponse going on whatever the name
NameFound_Always(name) == TRUE

\* if (name.length > 0) of buildResponse
NameFound(name) == Len(name) > 0

\* respond() from its call to its first wait: buildResponse, then either the
\* query of handleEdit or sendEvent is under way, or respond is over
respond(event) ==
    LET name == getName(event.body)
        message == Message(name)
    IN  IF NameFound(name)
        THEN IF event.new_content
             THEN IF event.relates_to = NoRelation
                  THEN \* event.content['m.relates_to'] is undefined: TypeError
                       Handler(event, "rejected", name, NoRelation,
                               InitialResponse, UndefinedId)
                  ELSE Handler(event, DbCall("getEventID"), name,
                               event.relates_to, InitialResponse,
                               SelectResponseID(table, event.relates_to))
             ELSE Handler(event, "sendEvent", name, NoRelation,
                          FreshResponse(message), UndefinedId)
        ELSE Handler(event, "done", name, NoRelation, InitialResponse,
                     UndefinedId)

\* run(): getUserId, client.start, db.start (checkDB, then setupDB when the
\* table is missing), then the listener is registered
Run ==
    /\ phase = "constructed"
    /\ \E ok \in BOOLEAN :
           IF ok
           THEN /\ phase' = "listening"
                /\ tableExists' = TRUE
                /\ isReady' = TRUE
           ELSE /\ phase' = "failed"
                /\ UNCHANGED <<tableExists, isReady>>
    /\ UNCHANGED <<now, table, handlers, sent, dbLog, last, delivered,
                   callbacks, nameVars, storeVars, windowVars>>

\* the clock advances
Tick ==
    /\ now < MaxTime
    /\ now' = now + 1
    /\ UNCHANGED <<table, handlers, sent, dbLog, last, delivered, callbacks,
                   phase, isReady, tableExists, nameVars, storeVars,
                   windowVars>>

\* the room.message callback of run(), called with event
Deliver(event) ==
    /\ phase = "listening"
    /\ delivered < MaxDeliveries
    /\ delivered' = delivered + 1
    /\ last' = [event |-> event, clock |-> now]
    /\ IF isValidMessage(SelfId, event, now)
       THEN LET handler == respond(event)
            IN  /\ handlers' = Append(handlers, handler)
                /\ sent' = IF handler.pc = "sendEvent"
                           THEN Append(sent, SendCall(Len(handlers) + 1,
                                                      handler.response))
                           ELSE sent
       ELSE UNCHANGED <<handlers, sent>>
    \* respond() is called and not awaited: the callback is over, and its
    \* promise resolved, as soon as respond() reaches its first wait
    /\ callbacks' = Append(callbacks, "resolved")
    /\ UNCHANGED <<now, table, dbLog, phase, isReady, tableExists, nameVars,
                   storeVars, windowVars>>

\* the SELECT of getEventID runs and its callback resumes handleEdit, then
\* buildResponse to its end and respond up to sendEvent
GetEventIDDone(h) ==
    /\ handlers[h].pc = "getEventID"
    /\ \E err \in BOOLEAN :
           LET responseID == SelectResponseID(table, handlers[h].eventId)
               response == EditResponse(handlers[h].message, responseID)
           IN  /\ dbLog' = Append(dbLog,
                       [op |-> "SELECT", eventID |-> handlers[h].eventId,
                        by |-> h, err |-> err])
               /\ IF err
                  THEN /\ handlers' = [handlers EXCEPT ![h].pc = "rejected"]
                       /\ UNCHANGED sent
                  ELSE IF TruthyId(responseID)
                  THEN /\ handlers' = [handlers EXCEPT
                              ![h].pc = "sendEvent",
                              ![h].responseID = responseID,
                              ![h].response = response]
                       /\ sent' = Append(sent, SendCall(h, response))
                  ELSE /\ handlers' = [handlers EXCEPT
                              ![h].pc = "done",
                              ![h].responseID = responseID]
                       /\ UNCHANGED sent
    /\ UNCHANGED <<now, table, last, delivered, callbacks, phase, isReady,
                   tableExists, nameVars, storeVars, windowVars>>

\* the call of sendEvent that handler h waits for
CallOf(h) == CHOOSE c \in DOMAIN sent : sent[c].by = h

\* how many events the homeserver has accepted
Accepted == Cardinality({c \in DOMAIN sent : sent[c].result = "ok"})

\* client.sendEvent settles; respond goes on to addEventID
SendEventDone(h) ==
    /\ handlers[h].pc = "sendEvent"
    /\ Accepted < Len(ResponseIds)
    /\ \E err \in BOOLEAN :
           IF err
           THEN /\ handlers' = [handlers EXCEPT ![h].pc = "rejected"]
                /\ sent' = [sent EXCEPT ![CallOf(h)].result = "error"]
           ELSE LET respondedID == ResponseIds[Accepted + 1]
                IN  /\ sent' = [sent EXCEPT
                           ![CallOf(h)].result = "ok",
                           ![CallOf(h)].event_id = respondedID]
                    /\ handlers' = [handlers EXCEPT
                           ![h].respondedID = respondedID,
                           ![h].pc = IF TruthyId(respondedID)
                                     THEN DbCall("addEventID")
                                     ELSE "done"]
    /\ UNCHANGED <<now, table, dbLog, last, delivered, callbacks, phase,
                   isReady, tableExists, nameVars, storeVars, windowVars>>

\* the INSERT of addEventID runs and its callback settles respond
AddEventIDDone(h) ==
    /\ handlers[h].pc = "addEventID"
    /\ \E ioError \in BOOLEAN :
           LET eventID == handlers[h].event.event_id
               err == ioError \/ ViolatesPrimaryKey(table, eventID)
           IN  /\ dbLog' = Append(dbLog,
                       [op |-> "INSERT", eventID |-> eventID, by |-> h,
                        err |-> err])
               /\ IF err
                  THEN /\ handlers' = [handlers EXCEPT ![h].pc = "rejected"]
                       /\ UNCHANGED table
                  ELSE /\ table' = InsertRow(table, eventID,
                                             handlers[h].respondedID)
                       /\ handlers' = [handlers EXCEPT ![h].pc = "done"]
    /\ UNCHANGED <<now, sent, last, delivered, callbacks, phase, isReady,
                   tableExists, nameVars, storeVars, windowVars>>

---------------------------------------------------------------------------
(* Inputs *)

\* the words bodies are written from
W_hello == <<"h", "e", "l", "l", "o">>

W_im == <<"i", "m">>

W_Im == <<"I", "'", "m">>

W_IMMA == <<"I", "M", "M", "A">>

W_curly == <<"i", RightQuote, "m">>

W_him == <<"h", "i", "m">>

W_imComma == <<"i", "'", "m", ",">>

W_bob == <<"b", "o", "b">>

W_so == <<"s", "o">>

W_mad == <<"m", "a", "d">>

\* the words of a body, written with one space between two of them
RECURSIVE Join(_)
Join(toks) ==
    IF Len(toks) = 0 THEN Empty
    ELSE IF Len(toks) = 1 THEN toks[1]
    ELSE toks[1] \o <<" ">> \o Join(Tail(toks))

\* the trigger words of "hello w n", in several letter cases
HelloTriggers == {W_im, W_Im, W_IMMA}

\* the names of "hello w n"
HelloNames == {W_bob, W_im}

\* "hello w n"
HelloBodies ==
    {Join(<<W_hello, w, n>>) : w \in HelloTriggers, n \in HelloNames}

\* the bodies of the events delivered to the bot
Bodies ==
    HelloBodies \cup
    { Undefined, Empty,
      Join(<<W_Im, W_so, W_mad>>),
      Join(<<W_Im>>),
      Join(<<W_im, Empty, W_bob>>),
      Join(<<W_him, W_bob>>),
      Join(<<W_imComma, W_bob>>) }

\* whether an event carries m.new_content, and the event it relates to
EditShapes == {<<FALSE, NoRelation>>, <<TRUE, NoRelation>>, <<TRUE, "$e1">>}

\* the events of every shape, for the runs that study one event at a time:
\* $e2, written at time 0 or at time MaxTime
AllEvents ==
    { Event("$e2", sender, msgtype, body, shape[1], shape[2], ts) :
        sender \in {SelfId, "@alice"},
        msgtype \in {"m.text", "m.image", "m.notice"}, body \in Bodies,
        shape \in EditShapes \cup {<<FALSE, "$e1">>}, ts \in {0, MaxTime} }

\* the events of the runs that study several events in flight: text
\* messages of another user, written at time 0, with a name or without
Events ==
    { Event(id, "@alice", "m.text", body, shape[1], shape[2], 0) :
        id \in EventIds,
        body \in {Join(<<W_hello, W_im, W_bob>>), Join(<<W_Im>>)},
        shape \in EditShapes }

\* the value of last before any event is delivered
NoEvent == Event("", "", "", Undefined, FALSE, NoRelation, 0)

\* the value of nmResult before getName is called
NotCalled == <<"<not called>">>

\* the value of wnResult before isRelevant is called
NotAsked == <<>>

\* no call is made on the DBController but those of the bot
NoCalls == calls = <<>>

\* getName is not under study
NoName == nmToks = <<>> /\ nmResult = NotCalled

\* isRelevant is not under study
NoWindow == wnClock = 0 /\ wnStamp = 0 /\ wnResult = NotAsked

\* the bot after its construction; the database file may be a new one or
\* hold the events table of an earlier run
InitBot ==
    /\ now = 0
    /\ table = {}
    /\ handlers = <<>>
    /\ sent = <<>>
    /\ dbLog = <<>>
    /\ last = [event |-> NoEvent, clock |-> 0]
    /\ delivered = 0
    /\ callbacks = <<>>
    /\ phase = "constructed"
    /\ isReady = FALSE
    /\ tableExists \in BOOLEAN

Init ==
    /\ InitBot
    /\ nmToks = <<>>
    /\ nmResult = NotCalled
    /\ NoCalls
    /\ NoWindow

\* the response id of a record written by an earlier run of the program
StoredId == "$r0"

\* the records an earlier run of the program may have left in the table
StoredRows == {[eventID |-> "$e1", responseID |-> StoredId]}

\* the program started on a database file that is new, or holds the events
\* table of an earlier run, empty or with its records
InitStored ==
    /\ now = 0
    /\ tableExists \in BOOLEAN
    /\ table \in (IF tableExists THEN {{}, StoredRows} ELSE {{}})
    /\ handlers = <<>>
    /\ sent = <<>>
    /\ dbLog = <<>>
    /\ last = [event |-> NoEvent, clock |-> 0]
    /\ delivered = 0
    /\ callbacks = <<>>
    /\ phase = "constructed"
    /\ isReady = FALSE
    /\ NoName
    /\ NoCalls
    /\ NoWindow

Next ==
    \/ Run
    \/ Tick
    \/ \E event \in Events : Deliver(event)
    \/ \E h \in DOMAIN handlers : GetEventIDDone(h)
    \/ \E h \in DOMAIN handlers : SendEventDone(h)
    \/ \E h \in DOMAIN handlers : AddEventIDDone(h)

Spec == Init /\ [][Next]_vars

\* one event at a time, of every shape: events are delivered only while
\* respond() was never called
NextWide ==
    \/ Run
    \/ Tick
    \/ \E event \in AllEvents :
           /\ handlers = <<>>
           /\ delivered < MaxWideDeliveries
           /\ Deliver(event)
    \/ \E h \in DOMAIN handlers : GetEventIDDone(h)
    \/ \E h \in DOMAIN handlers : SendEventDone(h)
    \/ \E h \in DOMAIN handlers : AddEventIDDone(h)

SpecWide == Init /\ [][NextWide]_vars

\* the bot on a database that may hold the records of an earlier run
SpecStored == InitStored /\ [][Next]_vars

\* the room.message event the homeserver makes of the c-th call of
\* sendEvent once it accepted it: the bot is its sender and it is written
\* at the time it is delivered
Echo(c) ==
    Event(sent[c].event_id, SelfId, sent[c].content.msgtype,
          sent[c].content.body, sent[c].content.new_content /= Absent,
          IF sent[c].content.relates_to = Absent
          THEN NoRelation
          ELSE sent[c].content.relates_to.event_id,
          now)

\* the bot in a room that delivers its own messages back to it
NextEcho ==
    \/ Next
    \/ \E c \in DOMAIN sent : sent[c].result = "ok" /\ Deliver(Echo(c))

SpecEcho == Init /\ [][NextEcho]_vars

---------------------------------------------------------------------------
(* getName on its own: a body is written from up to MaxTokens words, with  *)
(* one space between two of them, and getName is applied to it.  An empty  *)
(* word gives adjacent, leading or trailing spaces.                        *)

MaxTokens == 4

Words == {Empty, W_im, W_Im, W_IMMA, W_curly, W_him, W_bob, W_so}

TokenSeqs == UNION {[1..n -> Words] : n \in 1..MaxTokens}

InitName ==
    /\ InitBot
    /\ nmToks \in TokenSeqs
    /\ nmResult = NotCalled
    /\ NoCalls
    /\ NoWindow

CallGetName ==
    /\ nmResult = NotCalled
    /\ nmResult' = getName(Join(nmToks))
    /\ UNCHANGED <<botVars, nmToks, storeVars, windowVars>>

NextName == CallGetName

SpecName == InitName /\ [][NextName]_vars

---------------------------------------------------------------------------
(* isRelevant on its own: a message written at some time of the calendar   *)
(* is handled at the same time or later.                                   *)

MonthsPerYear == 2

MaxYears == 2

TicksPerMonth == TicksPerMinute * MinutesPerHour * HoursPerDay * DaysPerMonth

\* the times of the calendar
Times == 0..(TicksPerMonth * MonthsPerYear * MaxYears - 1)

InitWindow ==
    /\ InitBot
    /\ NoName
    /\ NoCalls
    /\ wnClock \in Times
    /\ wnStamp \in 0..wnClock
    /\ wnResult = NotAsked

\* DadBot.isRelevant(timestamp) is called when the clock reads wnClock
CallIsRelevant ==
    /\ wnResult = NotAsked
    /\ wnResult' = <<isRelevant(wnClock, wnStamp)>>
    /\ UNCHANGED <<botVars, nameVars, storeVars, wnClock, wnStamp>>

NextWindow == CallIsRelevant

SpecWindow == InitWindow /\ [][NextWindow]_vars

---------------------------------------------------------------------------
(* The DBController on its own, as the test suite drives it: start,        *)
(* addEventID and getEventID are called directly, any number of them in    *)
(* flight.  Every query the controller waits for is a position (pc) of the *)
(* call; the code from a query's callback to the next query runs without   *)
(* interruption.                                                           *)

MaxCalls == 2

\* the response ids the direct calls of addEventID are given
PutIds == {"$r1", "$r2"}

\* the positions at which a call waits for nothing any more: its promise
\* resolved, rejected, or can no longer be settled
Settled == {"resolved", "rejected", "pending"}

\* a call of start, addEventID or getEventID, at its first wait.  alone
\* tells whether every earlier call was over when this one was made, lazy
\* whether it found isReady false and fault whether one of its queries met
\* an I/O error; the code reads none of them.
StoreCall(op, eventId, responseId) ==
    [op |-> op, eventId |-> eventId, responseId |-> responseId,
     pc |-> IF op = "start" THEN "checkDB" ELSE DbCall(op),
     result |-> UndefinedId,
     alone |-> \A d \in DOMAIN calls : calls[d].pc \in Settled,
     lazy |-> op /= "start" /\ ~isReady, fault |-> FALSE]

\* the position of a call is "start" while it waits for this.start(), whose
\* first query is the one of checkDB
AwaitsCheckDB(call) == call.pc \in {"checkDB", "start"}

\* start() resolved: it is over, or the query of the method that awaited it
\* is run
StartResolved(call) ==
    [call EXCEPT !.pc = IF call.op = "start" THEN "resolved"
                        ELSE IF call.op = "addEventID" THEN "INSERT"
                        ELSE "SELECT"]

\* start() rejected.  addEventID and getEventID await it inside the async
\* executor of their promise, whose rejection settles nothing: reject is
\* never called
StartRejected(call) ==
    [call EXCEPT !.pc = IF call.op = "start" THEN "rejected" ELSE "pending"]

\* an I/O error met by a query of the call
Faulty(call, ioError) == [call EXCEPT !.fault = @ \/ ioError]

\* checkDB taking the events table for missing whatever its query returns
checkDB_NeverFound(row) == FALSE

\* what checkDB resolves with: whether its query of sqlite_master returned
\* a row
checkDB(row) == IF row THEN TRUE ELSE FALSE

\* a statement of call c, as the database ran it
Statement(op, c, err) ==
    [op |-> op, eventID |-> calls[c].eventId, by |-> c, err |-> err]

\* db.start()
CallStart ==
    /\ Len(calls) < MaxCalls
    /\ calls' = Append(calls, StoreCall("start", UndefinedId, UndefinedId))
    /\ UNCHANGED <<botVars, nameVars, windowVars>>

\* db.addEventID(eventId, responseId)
CallAddEventID(eventId, responseId) ==
    /\ Len(calls) < MaxCalls
    /\ calls' = Append(calls, LET call == StoreCall("addEventID", eventId,
                                                    responseId)
                              IN  IF call.pc = "addEventID"
                                  THEN [call EXCEPT !.pc = "INSERT"]
                                  ELSE call)
    /\ UNCHANGED <<botVars, nameVars, windowVars>>

\* db.getEventID(eventId)
CallGetEventID(eventId) ==
    /\ Len(calls) < MaxCalls
    /\ calls' = Append(calls, LET call == StoreCall("getEventID", eventId,
                                                    UndefinedId)
                              IN  IF call.pc = "getEventID"
                                  THEN [call EXCEPT !.pc = "SELECT"]
                                  ELSE call)
    /\ UNCHANGED <<botVars, nameVars, windowVars>>

\* the query of checkDB ran; start() goes on to setupDB, or sets isReady
CheckDBDone(c) ==
    /\ AwaitsCheckDB(calls[c])
    /\ \E err \in BOOLEAN :
           /\ dbLog' = Append(dbLog, Statement("CHECK", c, err))
           /\ IF err
              THEN /\ calls' = [calls EXCEPT
                                 ![c] = Faulty(StartRejected(@), err)]
                   /\ UNCHANGED isReady
              ELSE IF checkDB(tableExists)
              THEN /\ calls' = [calls EXCEPT ![c] = StartResolved(@)]
                   /\ isReady' = TRUE
              ELSE /\ calls' = [calls EXCEPT ![c].pc = "setupDB"]
                   /\ UNCHANGED isReady
    /\ UNCHANGED <<now, table, handlers, sent, last, delivered, callbacks,
                   phase, tableExists, nameVars, windowVars>>

\* the CREATE TABLE of setupDB ran; start() sets isReady
SetupDBDone(c) ==
    /\ calls[c].pc = "setupDB"
    /\ \E ioError \in BOOLEAN :
           LET err == ioError \/ tableExists
           IN  /\ dbLog' = Append(dbLog, Statement("CREATE", c, err))
               /\ IF err
                  THEN /\ calls' = [calls EXCEPT
                                     ![c] = Faulty(StartRejected(@), ioError)]
                       /\ UNCHANGED <<isReady, tableExists>>
                  ELSE /\ calls' = [calls EXCEPT ![c] = StartResolved(@)]
                       /\ tableExists' = TRUE
                       /\ isReady' = TRUE
    /\ UNCHANGED <<now, table, handlers, sent, last, delivered, callbacks,
                   phase, nameVars, windowVars>>

\* the INSERT of addEventID ran and its callback settles the promise
InsertDone(c) ==
    /\ calls[c].pc = "INSERT"
    /\ \E ioError \in BOOLEAN :
           \* an error of I/O, "no such table" or a duplicate key
           LET err == \/ ioError
                      \/ ~tableExists
                      \/ ViolatesPrimaryKey(table, calls[c].eventId)
           IN  /\ dbLog' = Append(dbLog, Statement("INSERT", c, err))
               /\ IF err
                  THEN /\ calls' = [calls EXCEPT
                              ![c] = Faulty([@ EXCEPT !.pc = "rejected"],
                                            ioError)]
                       /\ UNCHANGED table
                  ELSE /\ calls' = [calls EXCEPT ![c].pc = "resolved"]
                       /\ table' = InsertRow(table, calls[c].eventId,
                                             calls[c].responseId)
    /\ UNCHANGED <<now, handlers, sent, last, delivered, callbacks, phase,
                   isReady, tableExists, nameVars, windowVars>>

\* the SELECT of getEventID ran and its callback settles the promise
SelectDone(c) ==
    /\ calls[c].pc = "SELECT"
    /\ \E ioError \in BOOLEAN :
           \* an error of I/O or "no such table"
           LET err == ioError \/ ~tableExists
           IN
           /\ dbLog' = Append(dbLog, Statement("SELECT", c, err))
           /\ calls' = IF err
                       THEN [calls EXCEPT
                                ![c] = Faulty([@ EXCEPT !.pc = "rejected"],
                                              ioError)]
                       ELSE [calls EXCEPT
                                ![c].pc = "resolved",
                                ![c].result =
                                    SelectResponseID(table, calls[c].eventId)]
    /\ UNCHANGED <<now, table, handlers, sent, last, delivered, callbacks,
                   phase, isReady, tableExists, nameVars, windowVars>>

NextDB ==
    \/ CallStart
    \/ \E eventId \in EventIds, responseId \in PutIds :
           CallAddEventID(eventId, responseId)
    \/ \E eventId \in EventIds : CallGetEventID(eventId)
    \/ \E c \in DOMAIN calls : CheckDBDone(c)
    \/ \E c \in DOMAIN calls : SetupDBDone(c)
    \/ \E c \in DOMAIN calls : InsertDone(c)
    \/ \E c \in DOMAIN calls : SelectDone(c)

SpecDB == InitStored /\ [][NextDB]_vars

\* the query that call c waits for runs and its callback is called
StoreStep(c) ==
    /\ c \in DOMAIN calls
    /\ \/ CheckDBDone(c)
       \/ SetupDBDone(c)
       \/ InsertDone(c)
       \/ SelectDone(c)

\* sqlite3 runs every query it was given and calls its callback: no call
\* waits for ever for a query
SpecDBFair == SpecDB /\ \A c \in 1..MaxCalls : WF_vars(StoreStep(c))

---------------------------------------------------------------------------
(* Properties *)

\* the calls of sendEvent made by handler h
SentBy(h) == {c \in DOMAIN sent : sent[c].by = h}

\* the statements the database ran for handler h
StatementsBy(h) == {k \in DOMAIN dbLog : dbLog[k].by = h}

\* the handlers of the d-th call of the callback (none when it returned
\* without calling respond)
HandlersOf(d) == {h \in DOMAIN handlers : handlers[h].delivery = d}

\* "Hi n, I'm Dad."
HiDad(n) ==
    <<"H", "i", " ">> \o n
        \o <<",", " ", "I", "'", "m", " ", "D", "a", "d", ".">>

\* a plain notice with the given body: a fresh response
FreshContent(body) ==
    [msgtype |-> "m.notice", body |-> body, new_content |-> Absent,
     relates_to |-> Absent]

\* the four conditions of Validate
FourConditions(event) ==
    /\ event.body /= Undefined /\ event.body /= Empty
    /\ event.msgtype = "m.text"
    /\ event.sender /= SelfId
    /\ \E k \in DOMAIN Split(event.body) :
           ToLowerCase(Split(event.body)[k]) \in
               {W_im, <<"i", "'", "m">>, <<"i", "m", "m", "a">>, W_curly}

\* the timestamp lies in the day of the month, hour and minute of the clock
SameMinuteOfDay(clock, ts) ==
    /\ getDate(clock) = getDate(ts)
    /\ getHours(clock) = getHours(ts)
    /\ getMinutes(clock) = getMinutes(ts)

\* the last delivery was of "hello w n", not an edit, and was answered by
\* exactly one call of sendEvent, of the notice "Hi n, I'm Dad."
C1_Answered(n) ==
    \E h \in HandlersOf(delivered) :
        /\ Cardinality(SentBy(h)) = 1
        /\ \A c \in SentBy(h) : sent[c].content = FreshContent(HiDad(n))

C1_IsHello(w, n) ==
    /\ delivered > 0
    /\ last.event.body = Join(<<W_hello, w, n>>)
    /\ ~last.event.new_content
    /\ FourConditions(last.event)

\* C1 as stated: every non-edit event "hello w n" that meets the four
\* conditions of Validate is answered by exactly one fresh response, the
\* notice "Hi n, I'm Dad."
C1_AsStated ==
    \A w \in HelloTriggers, n \in HelloNames :
        C1_IsHello(w, n) => C1_Answered(n)

\* C1: every non-edit event "hello w n" that meets the four conditions of
\* Validate and whose timestamp lies in the same day of the month, hour and
\* minute as the clock at its delivery is answered by exactly one call of
\* sendEvent, of the notice "Hi n, I'm Dad."
C1_HelloAnswered ==
    \A w \in HelloTriggers, n \in HelloNames :
        (C1_IsHello(w, n)
            /\ SameMinuteOfDay(last.clock, last.event.origin_server_ts))
        => C1_Answered(n)

\* an upper-case "hello IMMA im" was answered and the homeserver took the
\* response
C1_Witness ==
    /\ C1_IsHello(W_IMMA, W_im)
    /\ \E c \in DOMAIN sent :
           /\ sent[c].result = "ok"
           /\ sent[c].content.body = HiDad(W_im)
           /\ sent[c].content.msgtype = "m.notice"

\* whether a word is a trigger word, whatever its letter case
C2_IsTrigger(tok) ==
    ToLowerCase(tok) \in
        {W_im, <<"i", "'", "m">>, <<"i", "m", "m", "a">>, W_curly}

\* the index of the first trigger word of toks, 0 when there is none
C2_First(toks) ==
    IF \E k \in DOMAIN toks : C2_IsTrigger(toks[k])
    THEN CHOOSE k \in DOMAIN toks :
             C2_IsTrigger(toks[k]) /\ \A m \in 1..(k - 1) : ~C2_IsTrigger(toks[m])
    ELSE 0

\* the reference of C2 as stated: a token that exists is used, empty or not
C2_ReferenceAsStated(toks) ==
    LET k == C2_First(toks)
    IN  IF k /= 0 /\ k + 1 <= Len(toks)
        THEN IF k + 2 <= Len(toks)
             THEN toks[k + 1] \o <<" ">> \o toks[k + 2]
             ELSE toks[k + 1]
        ELSE Empty

\* the reference of C2 as amended: an empty token counts as missing
C2_Reference(toks) ==
    LET k == C2_First(toks)
    IN  IF k /= 0 /\ k + 1 <= Len(toks) /\ toks[k + 1] /= Empty
        THEN IF k + 2 <= Len(toks) /\ toks[k + 2] /= Empty
             THEN toks[k + 1] \o <<" ">> \o toks[k + 2]
             ELSE toks[k + 1]
        ELSE Empty

\* C2 as stated: getName of a body is the token after the first trigger
\* word when it exists, followed by a space and the next token when that
\* exists too, and the empty string otherwise
C2_AsStated ==
    nmResult /= NotCalled => nmResult = C2_ReferenceAsStated(nmToks)

\* C2: getName of a body is the token after the first trigger word when it
\* exists and is not empty, followed by a space and the next token when
\* that exists and is not empty, and the empty string otherwise; later
\* trigger words change nothing
C2_GetNameIsReference ==
    nmResult /= NotCalled => nmResult = C2_Reference(nmToks)

\* "I'm so bob im": a name of two words, and a later trigger word
C2_Witness ==
    /\ nmToks = <<W_Im, W_so, W_bob, W_im>>
    /\ nmResult = <<"s", "o", " ", "b", "o", "b">>

\* the content of the edit of response r to "Hi bob, I'm Dad."
C3_EditContent(r) ==
    [msgtype |-> "m.notice",
     body |-> <<" ", "*", " ", "H", "i", " ", "b", "o", "b", ",", " ",
                "I", "'", "m", " ", "D", "a", "d", ".">>,
     new_content |->
         [msgtype |-> "m.notice",
          body |-> <<"H", "i", " ", "b", "o", "b", ",", " ",
                     "I", "'", "m", " ", "D", "a", "d", ".">>],
     relates_to |-> [rel_type |-> "m.replace", event_id |-> r]]

\* handler h is for a valid edit event, of name "bob", of an event whose
\* record the store held when the edit arrived
C3_IsEditOfRecorded(h) ==
    /\ handlers[h].event.new_content
    /\ handlers[h].event.relates_to /= NoRelation
    /\ handlers[h].name = W_bob
    /\ handlers[h].stored /= UndefinedId

\* C3: for a valid edit event of name "bob" that targets an event recorded
\* as e1 -> r1, the bot calls sendEvent at most once, with the replacement
\* of r1 by "Hi bob, I'm Dad." and the fallback body " * Hi bob, I'm Dad.",
\* and exactly once as soon as the lookup of the record has returned
C3_EditFlow ==
    \A h \in DOMAIN handlers :
        C3_IsEditOfRecorded(h) =>
            /\ Cardinality(SentBy(h)) <= 1
            /\ \A c \in SentBy(h) :
                   sent[c].content = C3_EditContent(handlers[h].stored)
            /\ handlers[h].pc \in {"sendEvent", "addEventID", "done"}
                   => Cardinality(SentBy(h)) = 1
            /\ handlers[h].pc = "rejected" /\ SentBy(h) = {}
                   => \E k \in StatementsBy(h) :
                          dbLog[k].op = "SELECT" /\ dbLog[k].err

\* the edit of a recorded event was sent and the homeserver took it
C3_Witness ==
    \E h \in DOMAIN handlers :
        /\ C3_IsEditOfRecorded(h)
        /\ handlers[h].stored = "$r1"
        /\ \E c \in SentBy(h) :
               /\ sent[c].result = "ok"
               /\ sent[c].content.relates_to.event_id = "$r1"


\* C4 as stated: the store is written for fresh responses only; the
\* handler of an edit event runs no INSERT and no row is keyed by the id of
\* an edit event
C4_NoWriteOnEdit ==
    /\ \A k \in DOMAIN dbLog :
           (dbLog[k].op = "INSERT" /\ ~dbLog[k].err)
               => ~handlers[dbLog[k].by].event.new_content
    /\ \A row \in table :
           \E h \in DOMAIN handlers :
               /\ ~handlers[h].event.new_content
               /\ handlers[h].event.event_id = row.eventID

\* C5: when respond is over for a fresh event e, without an error and
\* after sendEvent returned r, the table holds the row e -> r and the
\* SELECT for e gives r
C5_RecordAfterSend ==
    \A h \in DOMAIN handlers :
        \A c \in SentBy(h) :
            (/\ ~handlers[h].event.new_content
             /\ handlers[h].pc = "done"
             /\ sent[c].result = "ok")
            => /\ [eventID |-> handlers[h].event.event_id,
                   responseID |-> sent[c].event_id] \in table
               /\ SelectResponseID(table, handlers[h].event.event_id)
                      = sent[c].event_id

\* respond is over for a fresh event whose response the homeserver took
C5_Witness ==
    \E h \in DOMAIN handlers :
        /\ ~handlers[h].event.new_content
        /\ handlers[h].pc = "done"
        /\ \E c \in SentBy(h) : sent[c].event_id = "$r1"

\* statement k of the database is a SELECT that ran without error when no
\* row for its eventID had been inserted
C6_LookupOfUntracked(k) ==
    /\ dbLog[k].op = "SELECT"
    /\ ~dbLog[k].err
    /\ ~\E j \in 1..(k - 1) :
           /\ dbLog[j].op = "INSERT"
           /\ ~dbLog[j].err
           /\ dbLog[j].eventID = dbLog[k].eventID

\* C6: an edit event whose target has no row when the bot looks it up is
\* dropped: respond ends without an error, without a call of sendEvent and
\* without an INSERT, whatever name its body gives
C6_UntrackedEditDropped ==
    \A k \in DOMAIN dbLog :
        C6_LookupOfUntracked(k) =>
            LET h == dbLog[k].by
            IN  /\ handlers[h].pc = "done"
                /\ SentBy(h) = {}
                /\ \A j \in StatementsBy(h) : dbLog[j].op /= "INSERT"

\* an edit of the untracked $e1, of name "bob", was looked up and dropped
\* while the table held a row for another event
C6_Witness ==
    \E k \in DOMAIN dbLog :
        /\ C6_LookupOfUntracked(k)
        /\ handlers[dbLog[k].by].event.new_content
        /\ handlers[dbLog[k].by].name = W_bob
        /\ handlers[dbLog[k].by].pc = "done"
        /\ table /= {}

\* nothing was sent and no statement was run for the d-th call of the
\* callback
NoEffectOf(d) ==
    \A h \in HandlersOf(d) : SentBy(h) = {} /\ StatementsBy(h) = {}

\* the body holds a trigger word followed by a name
C7_HasTriggerAndName(event) ==
    event.body /= Undefined /\ C2_Reference(Split(event.body)) /= Empty

\* C7: an event whose sender is the bot is dropped, whatever its body,
\* message kind, timestamp and edit reference
C7_SelfDropped ==
    (delivered > 0 /\ last.event.sender = SelfId) => NoEffectOf(delivered)

\* a text message of the bot itself, of this minute, with a trigger word
\* and a name, was delivered
C7_Witness ==
    /\ delivered > 0
    /\ last.event.sender = SelfId
    /\ last.event.msgtype = "m.text"
    /\ C7_HasTriggerAndName(last.event)
    /\ SameMinuteOfDay(last.clock, last.event.origin_server_ts)
    /\ handlers = <<>> /\ sent = <<>> /\ dbLog = <<>>

\* C8: an event whose message kind is not plain text is dropped, whatever
\* its sender and body
C8_NonTextDropped ==
    (delivered > 0 /\ last.event.msgtype /= "m.text")
        => NoEffectOf(delivered)

\* an image of another user, of this minute, with a trigger word and a
\* name, was delivered
C8_Witness ==
    /\ delivered > 0
    /\ last.event.sender /= SelfId
    /\ last.event.msgtype = "m.image"
    /\ C7_HasTriggerAndName(last.event)
    /\ SameMinuteOfDay(last.clock, last.event.origin_server_ts)
    /\ handlers = <<>> /\ sent = <<>> /\ dbLog = <<>>

\* no token of the lower-cased body, split at single spaces, is a trigger
\* word
C9_NoTriggerToken(event) ==
    \/ event.body = Undefined
    \/ \A k \in DOMAIN Split(ToLowerCase(event.body)) :
           Split(ToLowerCase(event.body))[k] \notin
               {W_im, <<"i", "'", "m">>, <<"i", "m", "m", "a">>, W_curly}

\* C9: an event whose body holds no trigger word as a token is dropped,
\* also when a token holds a trigger word ("him", "i'm,")
C9_NoTriggerDropped ==
    (delivered > 0 /\ C9_NoTriggerToken(last.event)) => NoEffectOf(delivered)

\* the text message "i'm, bob" of another user, of this minute, was
\* delivered
C9_Witness ==
    /\ delivered > 0
    /\ last.event.sender /= SelfId
    /\ last.event.msgtype = "m.text"
    /\ last.event.body = Join(<<W_imComma, W_bob>>)
    /\ SameMinuteOfDay(last.clock, last.event.origin_server_ts)
    /\ handlers = <<>> /\ sent = <<>> /\ dbLog = <<>>

\* C10: when getName gives the empty string for the body of an event, the
\* event is dropped, be it fresh or an edit: respond ends without a call
\* of sendEvent and without a statement on the table
C10_EmptyNameDropped ==
    \A h \in DOMAIN handlers :
        handlers[h].name = Empty =>
            /\ handlers[h].pc = "done"
            /\ SentBy(h) = {}
            /\ StatementsBy(h) = {}

\* the edit "I'm" of the recorded $e1 and a fresh "I'm" were dropped
C10_Witness ==
    /\ \E h \in DOMAIN handlers :
           /\ handlers[h].event.body = W_Im
           /\ handlers[h].event.new_content
           /\ \E row \in table : row.eventID = handlers[h].event.relates_to
           /\ handlers[h].pc = "done"
    /\ sent /= <<>>

---------------------------------------------------------------------------
(* The event store *)

\* the statement op that the database ran for call c
StmtOf(c, op) ==
    CHOOSE k \in DOMAIN dbLog : dbLog[k].by = c /\ dbLog[k].op = op

\* the INSERTs of eventId that succeeded before statement k
PutsBefore(k, eventId) ==
    {j \in 1..(k - 1) : /\ dbLog[j].op = "INSERT"
                        /\ ~dbLog[j].err
                        /\ dbLog[j].eventID = eventId}

\* whether an earlier run of the program put eventId
StoredFor(eventId) ==
    \E row \in table : row.eventID = eventId /\ row.responseID = StoredId

\* the statements of call c that failed
FailuresOf(c) == {k \in DOMAIN dbLog : dbLog[k].by = c /\ dbLog[k].err}

\* what getEventID(eventId) returns on an initialised store at statement k
ExpectedGet(k, eventId) ==
    LET puts == PutsBefore(k, eventId)
    IN  IF puts /= {}
        THEN calls[dbLog[CHOOSE j \in puts : TRUE].by].responseId
        ELSE IF StoredFor(eventId) THEN StoredId ELSE UndefinedId

\* every call was made when the calls before it were over
SequentialRun == \A c \in DOMAIN calls : calls[c].alone

\* C11: a getEventID(e) that resolves returns the response id r of the
\* addEventID(e, r) that succeeded before its query ran, in this run or in
\* an earlier one, and undefined when e was never put; a getEventID rejects
\* only when one of its queries failed, never because the key is missing
C11_RoundTrip ==
    \A c \in DOMAIN calls :
        calls[c].op = "getEventID" =>
            /\ calls[c].pc = "resolved" =>
                   LET puts == PutsBefore(StmtOf(c, "SELECT"),
                                          calls[c].eventId)
                   IN  IF puts /= {}
                       THEN \A j \in puts :
                                calls[c].result =
                                    calls[dbLog[j].by].responseId
                       ELSE IF StoredFor(calls[c].eventId)
                       THEN calls[c].result = StoredId
                       ELSE calls[c].result = UndefinedId
            /\ calls[c].pc = "rejected" => calls[c].fault

\* addEventID(e, r) resolved, then getEventID(e) was called and returned r
C11_Witness ==
    \E p, c \in DOMAIN calls :
        /\ p < c
        /\ calls[p].op = "addEventID"
        /\ calls[p].pc = "resolved"
        /\ calls[c].op = "getEventID"
        /\ calls[c].alone
        /\ calls[c].eventId = calls[p].eventId
        /\ calls[c].pc = "resolved"
        /\ calls[c].result = calls[p].responseId

\* the rows that the INSERTs of this run wrote
RowsPut ==
    {[eventID |-> dbLog[k].eventID,
      responseID |-> calls[dbLog[k].by].responseId] :
        k \in {j \in DOMAIN dbLog : dbLog[j].op = "INSERT" /\ ~dbLog[j].err}}

\* C12: an addEventID(e, r2) whose INSERT runs when a record of e exists is
\* rejected and writes nothing: the table holds one row per eventID at most,
\* and exactly the rows of the INSERTs that succeeded besides those of
\* earlier runs, so that e keeps the response id of its first put
C12_DuplicatePutFails ==
    /\ \A row1, row2 \in table :
           row1.eventID = row2.eventID => row1 = row2
    /\ \A k \in DOMAIN dbLog :
           (/\ dbLog[k].op = "INSERT"
            /\ \/ PutsBefore(k, dbLog[k].eventID) /= {}
               \/ StoredFor(dbLog[k].eventID))
               => /\ dbLog[k].err
                  /\ calls[dbLog[k].by].pc = "rejected"
    /\ {row \in table : row.responseID /= StoredId} = RowsPut

\* addEventID(e, r1) resolved, then addEventID(e, r2) was called and
\* rejected, and e still maps to r1
C12_Witness ==
    \E p1, p2 \in DOMAIN calls :
        /\ p1 < p2
        /\ calls[p1].op = "addEventID" /\ calls[p1].pc = "resolved"
        /\ calls[p2].op = "addEventID" /\ calls[p2].pc = "rejected"
        /\ calls[p2].alone
        /\ calls[p2].eventId = calls[p1].eventId
        /\ calls[p2].responseId /= calls[p1].responseId
        /\ \A k \in FailuresOf(p2) : ViolatesPrimaryKey(table, dbLog[k].eventID)
        /\ SelectResponseID(table, calls[p1].eventId) = calls[p1].responseId

\* the positions of addEventID and getEventID after this.start() resolved
PastStart == {"INSERT", "SELECT", "resolved", "rejected"}

\* C13: in a run of calls made one after the other, an addEventID or
\* getEventID that finds the controller not ready and meets no I/O error
\* initialises it (the events table exists and isReady is set once its own
\* query is run) and settles as on an initialised store: getEventID resolves
\* with the stored response id or undefined, addEventID resolves with its row
\* written, or rejects when the record exists already; it never stays
\* pending or fails for want of initialisation
C13_LazyInit ==
    \A c \in DOMAIN calls :
        (calls[c].lazy /\ SequentialRun /\ ~calls[c].fault) =>
            /\ calls[c].pc /= "pending"
            /\ calls[c].pc = "setupDB" => ~tableExists
            /\ calls[c].pc \in PastStart => (isReady /\ tableExists)
            /\ (calls[c].op = "getEventID" /\ calls[c].pc \in Settled) =>
                   /\ calls[c].pc = "resolved"
                   /\ calls[c].result =
                          ExpectedGet(StmtOf(c, "SELECT"), calls[c].eventId)
            /\ (calls[c].op = "addEventID" /\ calls[c].pc \in Settled) =>
                   LET k == StmtOf(c, "INSERT")
                   IN  IF \/ PutsBefore(k, calls[c].eventId) /= {}
                          \/ StoredFor(calls[c].eventId)
                       THEN calls[c].pc = "rejected"
                       ELSE /\ calls[c].pc = "resolved"
                            /\ [eventID |-> calls[c].eventId,
                                responseID |-> calls[c].responseId] \in table

\* the first call made is an addEventID on a database without the events
\* table: it created the table and resolved with its row written
C13_Witness ==
    /\ calls /= <<>>
    /\ calls[1].op = "addEventID"
    /\ calls[1].lazy
    /\ calls[1].pc = "resolved"
    /\ \E k \in DOMAIN dbLog :
           dbLog[k].by = 1 /\ dbLog[k].op = "CREATE" /\ ~dbLog[k].err
    /\ isReady
    /\ [eventID |-> calls[1].eventId,
        responseID |-> calls[1].responseId] \in table

\* the CREATE TABLE statements that succeeded
TablesCreated ==
    {k \in DOMAIN dbLog : dbLog[k].op = "CREATE" /\ ~dbLog[k].err}

\* a query of a call of start() has just run
StartStep ==
    \E c \in DOMAIN calls :
        calls[c].op = "start" /\ calls'[c].pc /= calls[c].pc

\* C14: when calls are made one after the other, on a database with or
\* without the events table, every start() that meets no I/O error resolves,
\* CREATE TABLE is run only while the table is missing and succeeds once at
\* most, and no step of start() changes the rows of the table
C14_StartIdempotent ==
    /\ [](SequentialRun =>
            /\ \A c \in DOMAIN calls :
                   /\ (/\ calls[c].op = "start"
                       /\ ~calls[c].fault
                       /\ calls[c].pc \in Settled) => calls[c].pc = "resolved"
                   /\ calls[c].pc = "setupDB" => ~tableExists
            /\ Cardinality(TablesCreated) <= 1)
    /\ [][StartStep => table' = table]_vars

\* start() resolved twice in a row on a database that had no events table:
\* the first call created it, the second did not
C14_Witness ==
    /\ Len(calls) = 2
    /\ \A c \in DOMAIN calls :
           calls[c].op = "start" /\ calls[c].pc = "resolved" /\ calls[c].alone
    /\ \E k \in TablesCreated : dbLog[k].by = 1
    /\ \A k \in DOMAIN dbLog : dbLog[k].by = 2 => dbLog[k].op = "CHECK"

---------------------------------------------------------------------------
(* The responder and its store *)

\* the calls of sendEvent that carry an edit
EditsSent == {c \in DOMAIN sent : sent[c].content.relates_to /= Absent}

\* C15: no step removes or changes a row of the table, the table holds one
\* row per eventID at most, and every edit the bot sends for an edit of
\* message e relates to the response id r of the row e -> r; so the edits of
\* one message all relate to the same response
C15_RecordKept ==
    /\ [][table \subseteq table']_vars
    /\ [](/\ \A row1, row2 \in table :
                 row1.eventID = row2.eventID => row1 = row2
          /\ \A c \in EditsSent :
                 [eventID |-> handlers[sent[c].by].eventId,
                  responseID |-> sent[c].content.relates_to.event_id]
                     \in table
          /\ \A c1, c2 \in EditsSent :
                 handlers[sent[c1].by].eventId = handlers[sent[c2].by].eventId
                     => sent[c1].content.relates_to.event_id
                            = sent[c2].content.relates_to.event_id)

\* two edits of the same message were answered one after the other, both
\* with an edit of the same response
C15_Witness ==
    \E c1, c2 \in EditsSent :
        /\ c1 < c2
        /\ sent[c1].result = "ok"
        /\ sent[c2].result = "ok"
        /\ handlers[sent[c1].by].pc \in {"done", "rejected"}
        /\ handlers[sent[c2].by].delivery > handlers[sent[c1].by].delivery
        /\ handlers[sent[c1].by].eventId = handlers[sent[c2].by].eventId
        /\ sent[c1].content.relates_to.event_id
               = sent[c2].content.relates_to.event_id

\* the handlers whose call of sendEvent failed
SendFailed == {h \in DOMAIN handlers :
                  \E c \in SentBy(h) : sent[c].result = "error"}

\* C16: when the sendEvent of a handler fails, the promise of the
\* room.message callback that called respond() is rejected, sendEvent was
\* called once by the handler, and the handler ran no INSERT
C16_SendFailurePropagates ==
    \A h \in SendFailed :
        /\ callbacks[handlers[h].delivery] = "rejected"
        /\ Cardinality(SentBy(h)) = 1
        /\ \A k \in StatementsBy(h) : dbLog[k].op /= "INSERT"

\* the INSERTs of handler f that failed while its event had no record
C17_FailedWrites(f) ==
    {k \in StatementsBy(f) :
        /\ dbLog[k].op = "INSERT"
        /\ dbLog[k].err
        /\ ~\E j \in 1..(k - 1) : /\ dbLog[j].op = "INSERT"
                                  /\ ~dbLog[j].err
                                  /\ dbLog[j].eventID = dbLog[k].eventID}

\* the lookups of event e, by the handler of an edit, that ran after
\* statement k and before any INSERT of e succeeded
C17_LaterLookups(k, e) ==
    {j \in DOMAIN dbLog :
        /\ j > k
        /\ dbLog[j].op = "SELECT"
        /\ ~dbLog[j].err
        /\ dbLog[j].eventID = e
        /\ handlers[dbLog[j].by].event.new_content
        /\ ~\E i \in 1..(j - 1) : /\ dbLog[i].op = "INSERT"
                                  /\ ~dbLog[i].err
                                  /\ dbLog[i].eventID = e}

\* C17: when the INSERT fails after the fresh response to e was sent, the
\* response stays sent and no row maps e to it; every edit of e looked up
\* afterwards, while e has no record, ends without an error and without a
\* call of sendEvent
C17_FailedWriteDropsEdits ==
    \A f \in DOMAIN handlers :
        \A k \in C17_FailedWrites(f) :
            /\ handlers[f].pc = "rejected"
            /\ \A c \in SentBy(f) :
                   /\ sent[c].result = "ok"
                   /\ sent[c].event_id = handlers[f].respondedID
            /\ [eventID |-> handlers[f].event.event_id,
                responseID |-> handlers[f].respondedID] \notin table
            /\ \A j \in C17_LaterLookups(k, handlers[f].event.event_id) :
                   /\ handlers[dbLog[j].by].pc = "done"
                   /\ SentBy(dbLog[j].by) = {}

\* the fresh response to $e1 was sent and its INSERT failed; an edit of $e1
\* delivered afterwards was looked up and dropped
C17_Witness ==
    \E f \in DOMAIN handlers :
        /\ ~handlers[f].event.new_content
        /\ sent /= <<>>
        /\ \E k \in C17_FailedWrites(f) :
               \E j \in C17_LaterLookups(k, handlers[f].event.event_id) :
                   /\ handlers[dbLog[j].by].delivery > handlers[f].delivery
                   /\ handlers[dbLog[j].by].pc = "done"
                   /\ table = {}

---------------------------------------------------------------------------
(* The recency window *)

\* the month of the year of time t, from 0
MonthOf(t) == (t \div TicksPerMonth) % MonthsPerYear

\* the year of time t, from 0
YearOf(t) == t \div (TicksPerMonth * MonthsPerYear)

\* C18: isRelevant returns true only for a message written in the year,
\* month, day, hour and minute of the clock, hence less than one minute
\* before it is handled
C18_WithinOneMinute ==
    wnResult = <<TRUE>> =>
        /\ YearOf(wnStamp) = YearOf(wnClock)
        /\ MonthOf(wnStamp) = MonthOf(wnClock)
        /\ getDate(wnStamp) = getDate(wnClock)
        /\ getHours(wnStamp) = getHours(wnClock)
        /\ getMinutes(wnStamp) = getMinutes(wnClock)
        /\ wnClock - wnStamp < TicksPerMinute

---------------------------------------------------------------------------
(* Handlers in flight together *)

\* no call of sendEvent and no statement has failed
NothingFailed ==
    /\ \A c \in DOMAIN sent : sent[c].result /= "error"
    /\ \A k \in DOMAIN dbLog : ~dbLog[k].err

\* C19: when a fresh event e with a name is delivered, an edit of e with a
\* name is delivered after it, nothing fails and both handlers are over,
\* the handler of the edit has sent an edit of the response to e
C19_EditNeverDropped ==
    \A f, h \in DOMAIN handlers :
        (/\ ~handlers[f].event.new_content
         /\ NameFound(handlers[f].name)
         /\ handlers[h].event.new_content
         /\ NameFound(handlers[h].name)
         /\ handlers[h].eventId = handlers[f].event.event_id
         /\ handlers[h].event.event_id /= handlers[f].event.event_id
         /\ handlers[h].delivery > handlers[f].delivery
         /\ NothingFailed
         /\ handlers[f].pc = "done"
         /\ handlers[h].pc = "done")
            => \E c \in SentBy(h) :
                   /\ sent[c].result = "ok"
                   /\ sent[c].content.relates_to /= Absent
                   /\ sent[c].content.relates_to.event_id
                          = handlers[f].respondedID

\* the calls of sendEvent that carry a fresh response and were accepted
FreshSent ==
    {c \in DOMAIN sent :
        sent[c].content.relates_to = Absent /\ sent[c].result = "ok"}

\* C20: no two fresh responses are sent for the same event id, a second
\* delivery of an event id included
C20_OneFreshPerId ==
    \A c1, c2 \in FreshSent :
        handlers[sent[c1].by].event.event_id
            = handlers[sent[c2].by].event.event_id => c1 = c2

---------------------------------------------------------------------------
(* The bot's own messages *)

\* the user id of another instance of the bot in the room
OtherBotId == "@dadbot2"

\* the body holds a trigger word followed by a token
C21_TriggerThenToken(body) ==
    LET split == Split(body)
    IN  \E k \in DOMAIN split :
            /\ Includes(triggerWords, ToLowerCase(split[k]))
            /\ (k + 1) \in DOMAIN split
            /\ split[k + 1] /= Empty

\* C21: every message the bot sends is a notice; delivered back as a
\* room.message event of the bot it is refused by isValidMessage, by this
\* bot and by another instance of it, although its body holds a trigger
\* word followed by a token; so no handler is started for a message of the
\* bot, and sendEvent is called once at most per handler
C21_NoResponseLoop ==
    /\ \A c \in DOMAIN sent :
           /\ sent[c].content.msgtype = "m.notice"
           /\ C21_TriggerThenToken(sent[c].content.body)
           /\ ~isValidMessage(SelfId, Echo(c), now)
           /\ ~isValidMessage(OtherBotId, Echo(c), now)
    /\ \A h \in DOMAIN handlers :
           /\ handlers[h].event.sender /= SelfId
           /\ Cardinality(SentBy(h)) <= 1
    /\ last.event.sender = SelfId => HandlersOf(delivered) = {}
    /\ Len(sent) <= Len(handlers)
    /\ Len(handlers) <= delivered

\* the response "Hi bob, I'm Dad." was accepted, delivered back to the bot
\* within the minute, and dropped
C21_Witness ==
    /\ last.event.sender = SelfId
    /\ last.event.body = Message(W_bob)
    /\ last.event.msgtype = "m.notice"
    /\ isRelevant(last.clock, last.event.origin_server_ts)
    /\ C21_TriggerThenToken(last.event.body)
    /\ HandlersOf(delivered) = {}
    /\ Len(sent) = 1

---------------------------------------------------------------------------
(* The promises of the event store *)

\* C22: every call of addEventID and getEventID ends with its promise
\* resolved or rejected, the calls whose this.start() fails included
C22_EverySettles ==
    \A c \in 1..MaxCalls :
        [](c \in DOMAIN calls /\ calls[c].op /= "start"
              => <>(/\ c \in DOMAIN calls
                    /\ calls[c].pc \in {"resolved", "rejected"}))

\* the CREATE TABLE statements that were run
CreatesRun == {k \in DOMAIN dbLog : dbLog[k].op = "CREATE"}

\* no query of any call met an I/O error
NoFault == \A c \in DOMAIN calls : ~calls[c].fault

\* C23: when no query meets an I/O error, however the calls made on a
\* controller that is not ready interleave, CREATE TABLE is run once at
\* most and every call completes as on an initialised store: start and
\* getEventID resolve, addEventID resolves or is rejected for a record that
\* exists already, and none stays pending
C23_ConcurrentFirstUse ==
    NoFault =>
        /\ Cardinality(CreatesRun) <= 1
        /\ \A c \in DOMAIN calls :
               /\ calls[c].pc /= "pending"
               /\ calls[c].pc = "rejected" =>
                      /\ calls[c].op = "addEventID"
                      /\ \/ PutsBefore(StmtOf(c, "INSERT"),
                                       calls[c].eventId) /= {}
                         \/ StoredFor(calls[c].eventId)

============================================================================
